---- MODULE Spec2Model ----
(***************************************************************************)
(* Model of lambda_trigger.py: the forecast evaluation (find_freeze_hours, *)
(* find_warm_clear_days), the classification and the COLD/WARM state       *)
(* machine of lambda_handler, with its collaborators (OpenWeather, the     *)
(* DynamoDB state table, SES mail, SNS text messages) as nondeterministic  *)
(* calls that either answer or raise.                                      *)
(*                                                                         *)
(* Temperatures are in tenths of a degree Fahrenheit (32.0 is 320), so the *)
(* half-degree steps of the simulated forecasts stay integers.             *)
(***************************************************************************)
EXTENDS Integers, Sequences, FiniteSets, TLC

VARIABLES
    table,      \* the "mode" attribute of item "main" of the state table, or NoState
    topic_arn,  \* TRUE when SNS_TOPIC_ARN is set in the environment
    overlap,    \* TRUE when the invoker lets invocations overlap
    inv,        \* inv[p]: the locals of invocation slot p, and what it has done so far
    run,        \* history: the classifications and alerts of the run of successful
                \* NORMAL invocations since the table was empty
    ev          \* the evaluator applied to one drawn forecast (specification SpecEval)

vars == <<table, topic_arn, overlap, inv, run, ev>>

---------------------------------------------------------------------------
(* Bounds of the model *)

\* the longest run of NORMAL invocations whose history is kept
MaxRun == 5
\* the longest hourly and daily sequences the evaluator is applied to
MaxHourly == 2
MaxDaily == 2

(* Configuration read from the environment, lambda_handler lines 364-368.  *)
(* The thresholds and WARM_CLEAR_DAYS are the defaults (32.0, 35.0, 2);    *)
(* HOURS_AHEAD is set to 2 instead of its default 12, so that forecasts of *)
(* three hours reach past the lookahead window.                            *)

HOURS_AHEAD == 2
FREEZE_THRESHOLD_F == 320
WARM_CLEAR_DAYS == 2
WARM_THRESHOLD_F == 350

Config ==
    [hours_ahead |-> HOURS_AHEAD, threshold_f |-> FREEZE_THRESHOLD_F,
     warm_clear_days |-> WARM_CLEAR_DAYS, warm_threshold_f |-> WARM_THRESHOLD_F]

---------------------------------------------------------------------------
(* Python values *)

\* an optional number: None is <<>>, the number v is <<v>>
TempNone == <<>>
Temp(v) == <<v>>

\* get_last_state's None, and the two modes
NoState == "None"
Modes == {"COLD", "WARM"}

\* d.get(k) of a dict with optional number values
Get(d, k) == IF k \in DOMAIN d THEN d[k] ELSE TempNone

\* d.get("temp", {}) of a daily entry
EmptyDict == <<>>
GetTempDict(d) == IF "temp" \in DOMAIN d THEN d.temp ELSE EmptyDict

\* an entry of the hourly list that is no dict (h.get raises AttributeError)
NotADict == [nondict |-> TRUE]
IsDict(h) == "nondict" \notin DOMAIN h

Min2(a, b) == IF a <= b THEN a ELSE b
Max2(a, b) == IF a >= b THEN a ELSE b

\* s[:n]
Take(s, n) ==
    IF n >= 0 THEN SubSeq(s, 1, Min2(n, Len(s)))
    ELSE SubSeq(s, 1, Max2(0, Len(s) + n))

---------------------------------------------------------------------------
(* The threshold evaluator *)

\* the comparison made strict: an hour at the threshold is not kept
IsFreezeHourStrict(h, threshold_f) ==
    Get(h, "temp") # TempNone /\ h.temp[1] < threshold_f

IsFreezeHour(h, threshold_f) ==
    Get(h, "temp") # TempNone /\ h.temp[1] <= threshold_f

find_freeze_hours(hourly, hours_ahead, threshold_f) ==
    LET upcoming == Take(hourly, hours_ahead)
        keep(h) == IsFreezeHour(h, threshold_f)
    IN  SelectSeq(upcoming, keep)

\* find_freeze_hours raises when an entry of the window is no dict
find_freeze_hours_raises(hourly, hours_ahead) ==
    \E i \in 1..Len(Take(hourly, hours_ahead)) : ~IsDict(hourly[i])

\* the comparison made strict: a minimum at the threshold fails the day
DayFailsStrict(d, warm_threshold_f) ==
    LET min_temp == Get(GetTempDict(d), "min")
    IN  min_temp = TempNone \/ min_temp[1] <= warm_threshold_f

DayFails(d, warm_threshold_f) ==
    LET min_temp == Get(GetTempDict(d), "min")
    IN  min_temp = TempNone \/ min_temp[1] < warm_threshold_f

find_warm_clear_days(daily, warm_clear_days, warm_threshold_f) ==
    IF daily = <<>> THEN FALSE
    ELSE LET upcoming_days == Take(daily, warm_clear_days)
         IN  \A i \in 1..Len(upcoming_days) :
                 ~DayFails(upcoming_days[i], warm_threshold_f)

\* the warm-clear window checked although freeze hours were found
WarmOkIgnoresFreeze(freeze_hours, daily, cfg) ==
    find_warm_clear_days(daily, cfg.warm_clear_days, cfg.warm_threshold_f)

\* lambda_handler, "2) Check for warm-clear window (if no freeze)"
WarmOk(freeze_hours, daily, cfg) ==
    IF freeze_hours = <<>> /\ daily # <<>>
    THEN find_warm_clear_days(daily, cfg.warm_clear_days, cfg.warm_threshold_f)
    ELSE FALSE

\* lambda_handler, "3) Determine current state from forecast"
CurrentState(warm_ok) == IF warm_ok THEN "WARM" ELSE "COLD"

---------------------------------------------------------------------------
(* Time formatting and the notification payloads *)

\* format_time: the local time of a unix timestamp, to the minute
format_time(ts_utc) == [local_minute |-> ts_utc \div 60]

\* min(h["temp"] for h in hours)
MinTemp(hours) ==
    LET S == {hours[i].temp[1] : i \in 1..Len(hours)}
    IN  CHOOSE m \in S : \A x \in S : m <= x

\* send_freeze_email raises before it reaches ses.send_email: a KeyError for a
\* first or last hour without "dt", a TypeError formatting a min_temp of None
send_freeze_email_raises(freeze_hours, min_temp) ==
    \/ "dt" \notin DOMAIN freeze_hours[1]
    \/ "dt" \notin DOMAIN freeze_hours[Len(freeze_hours)]
    \/ min_temp = TempNone

\* what send_freeze_email hands to SES
FreezeEmail(freeze_hours, min_temp) ==
    [chan |-> "email", kind |-> "freeze", hours |-> Len(freeze_hours),
     min_temp |-> min_temp,
     start_time |-> format_time(freeze_hours[1].dt),
     end_time |-> format_time(freeze_hours[Len(freeze_hours)].dt)]

\* what send_freeze_sms hands to SNS
FreezeSms(min_temp, start_time, end_time) ==
    [chan |-> "sms", kind |-> "freeze", min_temp |-> min_temp,
     start_time |-> start_time, end_time |-> end_time]

WarmEmail == [chan |-> "email", kind |-> "warm"]
WarmSms == [chan |-> "sms", kind |-> "warm"]
TestSms == [chan |-> "sms", kind |-> "test"]
StatusEmail(last_state, current_state) ==
    [chan |-> "email", kind |-> "status", last_state |-> last_state,
     current_state |-> current_state]

\* send_status_email raises a TypeError formatting a daily low or high of None
send_status_email_raises(daily) ==
    \E i \in 1..Len(Take(daily, 10)) :
        \/ Get(GetTempDict(daily[i]), "min") = TempNone
        \/ Get(GetTempDict(daily[i]), "max") = TempNone

\* the hours a freeze alert is built from: the freeze hours, or the fake hour made
\* of the first hourly entry
FakeHour(hourly) == [dt |-> hourly[1].dt, temp |-> hourly[1].temp]
fake_hour_raises(hourly) ==
    ~IsDict(hourly[1]) \/ "dt" \notin DOMAIN hourly[1] \/ "temp" \notin DOMAIN hourly[1]

\* TEST_COLD's mock_hourly
MockColdHourly(now_ts, cfg) ==
    [i \in 1..cfg.hours_ahead |->
        [dt |-> now_ts + (i - 1) * 3600,
         temp |-> Temp(cfg.threshold_f - 20 - (i - 1) * 5)]]

---------------------------------------------------------------------------
(* What the collaborators can answer *)

H(i, t) == [dt |-> 3600 * i, temp |-> Temp(t)]
D(i, lo) == [dt |-> 86400 * i, temp |-> [min |-> Temp(lo), max |-> Temp(lo + 200)]]

\* the hourly lists OpenWeather answers with
FeedHourly ==
    { <<>>,
      <<H(0, 300)>>,
      <<H(0, 400), H(1, 400)>>,
      <<H(0, 310), H(1, 290)>>,
      <<H(0, 400), H(1, 400), H(2, 300)>>,
      <<[dt |-> 0, temp |-> TempNone], H(1, 400)>>,
      <<[dt |-> 0], H(1, 400)>>,
      <<[temp |-> Temp(400)], H(1, 400)>>,
      <<[temp |-> Temp(300)]>>,
      <<NotADict>> }

\* the daily lists OpenWeather answers with
FeedDaily ==
    { <<>>,
      <<D(0, 360), D(1, 370)>>,
      <<D(0, 360), D(1, 340)>>,
      <<D(0, 360), [dt |-> 86400, temp |-> [min |-> TempNone, max |-> Temp(500)]]>>,
      <<D(0, 350)>> }

\* the responses of get_weather: with both lists, or with a key missing
Feed ==
    {[hourly |-> h, daily |-> d] : h \in FeedHourly, d \in FeedDaily}
    \cup {[daily |-> <<D(0, 360), D(1, 370)>>], [hourly |-> <<H(0, 400)>>]}

\* weather.get(k, [])
WGet(w, k) == IF k \in DOMAIN w THEN w[k] ELSE <<>>

\* int(time.time())
NowValues == {0, 5400}

\* the events lambda_handler is invoked with
InvModes == {"NORMAL", "TEST", "TEST_SMS_ONLY", "TEST_COLD", "TEST_WARM", "STATUS"}
Events ==
    {[isdict |-> FALSE], [isdict |-> TRUE]}
    \cup {[isdict |-> TRUE, mode |-> m] : m \in InvModes}

\* lambda_handler: mode = "NORMAL"; if isinstance(event, dict): mode = event.get(...)
ModeOf(event) ==
    IF event.isdict /\ "mode" \in DOMAIN event THEN event.mode ELSE "NORMAL"

Procs == {1, 2}
ActiveProcs == IF overlap THEN Procs ELSE {1}

---------------------------------------------------------------------------
(* The state *)

NoResult == [statusCode |-> 0, body |-> ""]
NoPrev == [failed |-> FALSE]

\* the locals of a slot no invocation has used
Idle ==
    [pc |-> "idle", mode |-> "NORMAL", fetched |-> FALSE,
     hourly |-> <<>>, daily |-> <<>>, freeze_hours |-> <<>>, warm_ok |-> FALSE,
     current_state |-> NoState, last_state |-> NoState,
     min_temp |-> TempNone, start_time |-> format_time(0), end_time |-> format_time(0),
     result |-> NoResult,
     \* what the invocation has done: notifications handed to SES and SNS, modes put
     \* in the table, reads of the table, and the table as it was at the start
     sent |-> <<>>, puts |-> <<>>, gets |-> 0, table0 |-> NoState,
     \* the failed invocation this one retries, if any
     prev |-> NoPrev]

NotClean == [clean |-> FALSE, classes |-> <<>>, alerts |-> <<>>, sms |-> <<>>]

EvOff == [phase |-> "off"]

Init ==
    /\ table = NoState
    /\ topic_arn \in BOOLEAN
    /\ overlap = FALSE
    /\ inv = [p \in Procs |-> Idle]
    /\ run = [clean |-> TRUE, classes |-> <<>>, alerts |-> <<>>, sms |-> <<>>]
    /\ ev = EvOff

---------------------------------------------------------------------------
(* Steps of lambda_handler.  Each action runs the handler from one call of a *)
(* collaborator to the next; the collaborator answers or raises.            *)

\* return {"statusCode": code, "body": body}
Return(l, code, body) ==
    [l EXCEPT !.pc = "done", !.result = [statusCode |-> code, body |-> body]]

\* the exception swallowed: the handler reports success
RaiseReportsSuccess(l, e) == Return(l, 200, e)

\* except Exception as e: return {"statusCode": 500, "body": str(e)}
Raise(l, e) == Return(l, 500, e)

\* the kinds of the freeze and warm-clear alerts among the notifications sent
AlertsOf(sent, chan) ==
    LET isAlert(n) == n.chan = chan /\ n.kind \in {"freeze", "warm"}
        alerts == SelectSeq(sent, isAlert)
    IN  [i \in 1..Len(alerts) |-> alerts[i].kind]

\* the history after an invocation ended with locals r
RunAfter(h, r) ==
    IF h.clean /\ r.mode = "NORMAL" /\ r.result.statusCode = 200
    THEN IF r.current_state = NoState THEN h
         ELSE IF Len(h.classes) < MaxRun
         THEN [clean |-> TRUE,
               classes |-> Append(h.classes, r.current_state),
               alerts |-> h.alerts \o AlertsOf(r.sent, "email"),
               sms |-> h.sms \o AlertsOf(r.sent, "sms")]
         ELSE NotClean
    ELSE NotClean

\* slot p goes on with locals r
Step(p, r) ==
    /\ inv' = [inv EXCEPT ![p] = r]
    /\ run' = IF r.pc = "done" THEN RunAfter(run, r) ELSE run
    /\ UNCHANGED <<topic_arn, overlap, ev>>

\* what a retry remembers of the failed invocation before it
Summary(l) ==
    [failed |-> TRUE, fetched |-> l.fetched, hourly |-> l.hourly, daily |-> l.daily,
     current_state |-> l.current_state, table0 |-> l.table0,
     puts |-> l.puts, sent |-> l.sent]

\* The invoker calls lambda_handler(event, context).  With again, the call retries
\* the failed NORMAL invocation before it and the weather source still answers
\* with the forecast it gave that one.
Invoke(p, event, again) ==
    /\ p \in ActiveProcs
    /\ inv[p].pc \in {"idle", "done"}
    /\ ~overlap => \A q \in Procs : inv[q].pc \in {"idle", "done"}
    /\ again => /\ inv[p].pc = "done"
                /\ inv[p].mode = "NORMAL"
                /\ inv[p].result.statusCode = 500
                /\ ModeOf(event) = "NORMAL"
    /\ Step(p, [Idle EXCEPT !.pc = "get_weather",
                            !.mode = ModeOf(event),
                            !.table0 = table,
                            !.prev = IF again THEN Summary(inv[p]) ELSE NoPrev])
    /\ UNCHANGED table

\* the handler from the forecast to its next call, lines 376-420
AfterWeather(l, hourly, daily) ==
    LET l1 == [l EXCEPT !.fetched = TRUE, !.hourly = hourly, !.daily = daily]
    IN  IF hourly = <<>>
        THEN CASE l.mode = "TEST" -> [l1 EXCEPT !.pc = "get_last_state"]
               [] l.mode = "TEST_SMS_ONLY" -> [l1 EXCEPT !.pc = "test_sms"]
               [] OTHER -> Return(l1, 200, "No hourly data.")
        ELSE IF find_freeze_hours_raises(hourly, Config.hours_ahead)
        THEN Raise(l1, "AttributeError")
        ELSE LET freeze_hours ==
                     find_freeze_hours(hourly, Config.hours_ahead, Config.threshold_f)
                 warm_ok == WarmOk(freeze_hours, daily, Config)
             IN  [l1 EXCEPT !.pc = "get_last_state",
                            !.freeze_hours = freeze_hours,
                            !.warm_ok = warm_ok,
                            !.current_state = CurrentState(warm_ok)]

\* weather = get_weather() answers
GetWeather(p) ==
    /\ inv[p].pc = "get_weather"
    /\ \E w \in Feed :
        /\ (inv[p].prev.failed /\ inv[p].prev.fetched) =>
               /\ WGet(w, "hourly") = inv[p].prev.hourly
               /\ WGet(w, "daily") = inv[p].prev.daily
        /\ Step(p, AfterWeather(inv[p], WGet(w, "hourly"), WGet(w, "daily")))
    /\ UNCHANGED table

\* get_weather() raises (HTTPError, URLError, a missing WEATHER_API_KEY)
GetWeatherFails(p) ==
    /\ inv[p].pc = "get_weather"
    /\ Step(p, Raise(inv[p], "HTTPError"))
    /\ UNCHANGED table

\* the unchanged check left out: every invocation is taken for a change
TransitionAlways(last_state, current_state) == TRUE

\* only the first run is taken for a change
TransitionFirstRunOnly(last_state, current_state) == last_state = NoState

\* lines 527 and 558: the first run, or a state that changed
Transition(last_state, current_state) ==
    last_state = NoState \/ current_state # last_state

\* the TEST_COLD branch left out: the mode falls through to the state machine
AfterLastStateNoTestCold(l) ==
    IF l.hourly = <<>> THEN [l EXCEPT !.pc = "status_email"]
    ELSE CASE l.mode = "TEST" -> [l EXCEPT !.pc = "status_email"]
           [] l.mode = "TEST_SMS_ONLY" -> [l EXCEPT !.pc = "test_sms"]
           [] l.mode = "TEST_WARM" -> [l EXCEPT !.pc = "test_warm_email"]
           [] OTHER ->
                IF l.last_state = NoState \/ l.current_state # l.last_state
                THEN [l EXCEPT !.pc = "set_last_state"]
                ELSE Return(l, 200, "State unchanged; no alert.")

\* the handler from the last state to its next call, lines 426-566
AfterLastState(l) ==
    IF l.hourly = <<>> THEN [l EXCEPT !.pc = "status_email"]
    ELSE CASE l.mode = "TEST" -> [l EXCEPT !.pc = "status_email"]
           [] l.mode = "TEST_SMS_ONLY" -> [l EXCEPT !.pc = "test_sms"]
           [] l.mode = "TEST_COLD" -> [l EXCEPT !.pc = "test_cold_email"]
           [] l.mode = "TEST_WARM" -> [l EXCEPT !.pc = "test_warm_email"]
           [] OTHER ->
                IF Transition(l.last_state, l.current_state)
                THEN [l EXCEPT !.pc = "set_last_state"]
                ELSE Return(l, 200, IF l.current_state = "COLD"
                                     THEN "State unchanged (COLD); no alert."
                                     ELSE "State unchanged (WARM); no alert.")

\* last_state = get_last_state() answers
GetLastState(p) ==
    /\ inv[p].pc = "get_last_state"
    /\ Step(p, AfterLastState([inv[p] EXCEPT !.last_state = table, !.gets = @ + 1]))
    /\ UNCHANGED table

\* get_last_state() raises
GetLastStateFails(p) ==
    /\ inv[p].pc = "get_last_state"
    /\ Step(p, Raise([inv[p] EXCEPT !.gets = @ + 1], "StateStoreError on read"))
    /\ UNCHANGED table

\* send_status_email(...): raises building the body, or SES takes the mail, or
\* ses.send_email raises
SendStatusEmail(p) ==
    LET l == inv[p]
        shown == IF l.hourly = <<>> THEN "UNKNOWN (no hourly data)" ELSE l.current_state
    IN  /\ l.pc = "status_email"
        /\ \/ /\ send_status_email_raises(l.daily)
              /\ Step(p, Raise(l, "TypeError"))
           \/ /\ ~send_status_email_raises(l.daily)
              /\ Step(p, [l EXCEPT !.pc = "test_sms",
                                   !.sent = Append(@, StatusEmail(l.last_state, shown))])
           \/ /\ ~send_status_email_raises(l.daily)
              /\ Step(p, Raise(l, "SES error"))
        /\ UNCHANGED table

\* the result of the TEST and TEST_SMS_ONLY modes
TestBody(l) ==
    CASE l.mode = "TEST" /\ l.hourly = <<>> ->
             "TEST: sent status email + test SMS with limited data."
      [] l.mode = "TEST" /\ l.hourly # <<>> ->
             "TEST: status email + test SMS sent; FSM state unchanged."
      [] l.mode # "TEST" /\ l.hourly = <<>> ->
             "TEST_SMS_ONLY: test SMS sent (no hourly data)."
      [] OTHER -> "TEST_SMS_ONLY: test SMS sent."

\* send_test_sms(): skipped without a topic, or SNS takes it, or sns.publish raises
SendTestSms(p) ==
    LET l == inv[p]
    IN  /\ l.pc = "test_sms"
        /\ \/ /\ ~topic_arn
              /\ Step(p, Return(l, 200, TestBody(l)))
           \/ /\ topic_arn
              /\ Step(p, Return([l EXCEPT !.sent = Append(@, TestSms)], 200, TestBody(l)))
           \/ /\ topic_arn
              /\ Step(p, Raise(l, "SNS error"))
        /\ UNCHANGED table

\* TEST_COLD, lines 453-492: the hours the simulated alert is built from
TestColdHours(mock_hourly) ==
    LET test_freeze_hours ==
            find_freeze_hours(mock_hourly, Config.hours_ahead, Config.threshold_f)
    IN  IF test_freeze_hours # <<>> THEN test_freeze_hours ELSE <<mock_hourly[1]>>

TestColdMinTemp(mock_hourly) ==
    LET test_freeze_hours ==
            find_freeze_hours(mock_hourly, Config.hours_ahead, Config.threshold_f)
    IN  IF test_freeze_hours # <<>> THEN Temp(MinTemp(test_freeze_hours))
        ELSE mock_hourly[1].temp

TestColdEmail(p) ==
    LET l == inv[p]
    IN  /\ l.pc = "test_cold_email"
        /\ \E now_ts \in NowValues :
             LET mock_hourly == MockColdHourly(now_ts, Config)
             IN  \/ Step(p, IF mock_hourly = <<>> THEN Raise(l, "IndexError")
                            ELSE Return([l EXCEPT !.sent = Append(@,
                                            FreezeEmail(TestColdHours(mock_hourly),
                                                        TestColdMinTemp(mock_hourly)))],
                                        200, "TEST_COLD: cold alert email sent"))
                 \/ Step(p, Raise(l, "SES error"))
        /\ UNCHANGED table

\* TEST_WARM, lines 495-523
TestWarmEmail(p) ==
    LET l == inv[p]
    IN  /\ l.pc = "test_warm_email"
        /\ \/ Step(p, Return([l EXCEPT !.sent = Append(@, WarmEmail)],
                             200, "TEST_WARM: warm alert email sent"))
           \/ Step(p, Raise(l, "SES error"))
        /\ UNCHANGED table

\* the write left out: the handler goes on to the alert with nothing stored
SetLastStateNoStore(p) ==
    LET l == inv[p]
    IN  /\ l.pc = "set_last_state"
        /\ Step(p, [l EXCEPT !.pc = "alert_email"])
        /\ UNCHANGED table

\* set_last_state(current_state): table.put_item stores the mode
SetLastState(p) ==
    LET l == inv[p]
    IN  /\ l.pc = "set_last_state"
        /\ table' = l.current_state
        /\ Step(p, [l EXCEPT !.pc = "alert_email", !.puts = Append(@, l.current_state)])

\* a failed put that takes the stored item with it
SetLastStateFailsDropsItem(p) ==
    LET l == inv[p]
    IN  /\ l.pc = "set_last_state"
        /\ table' = NoState
        /\ Step(p, Raise(l, "StateStoreError on write"))

\* set_last_state(current_state) raises: nothing is stored
SetLastStateFails(p) ==
    LET l == inv[p]
    IN  /\ l.pc = "set_last_state"
        /\ Step(p, Raise(l, "StateStoreError on write"))
        /\ UNCHANGED table

\* lines 530-545 and 568-583: the hours and the minimum of a freeze alert
AlertHours(l) ==
    IF l.freeze_hours = <<>> THEN <<FakeHour(l.hourly)>> ELSE l.freeze_hours

\* the first freeze hour's temperature taken for the minimum
AlertMinTempFirst(l) ==
    IF l.freeze_hours = <<>> THEN FakeHour(l.hourly).temp
    ELSE l.freeze_hours[1].temp

AlertMinTemp(l) ==
    IF l.freeze_hours = <<>> THEN FakeHour(l.hourly).temp
    ELSE Temp(MinTemp(l.freeze_hours))

\* building the alert raises before anything is handed to SES
alert_raises(l) ==
    IF l.current_state # "COLD" THEN FALSE
    ELSE IF l.freeze_hours = <<>> /\ fake_hour_raises(l.hourly) THEN TRUE
    ELSE send_freeze_email_raises(AlertHours(l), AlertMinTemp(l))

\* the warm-clear mail sent whatever the state
AfterAlertEmailAlwaysWarm(l) ==
    [l EXCEPT !.pc = "alert_sms", !.sent = Append(@, WarmEmail)]

\* the locals once the alert mail is sent
AfterAlertEmail(l) ==
    IF l.current_state = "COLD"
    THEN LET hours == AlertHours(l)
         IN  [l EXCEPT !.pc = "alert_sms",
                       !.min_temp = AlertMinTemp(l),
                       !.start_time = format_time(hours[1].dt),
                       !.end_time = format_time(hours[Len(hours)].dt),
                       !.sent = Append(@, FreezeEmail(hours, AlertMinTemp(l)))]
    ELSE [l EXCEPT !.pc = "alert_sms", !.sent = Append(@, WarmEmail)]

\* send_freeze_email(...) or send_warm_ok_email(...) after the state was stored
AlertEmail(p) ==
    LET l == inv[p]
    IN  /\ l.pc = "alert_email"
        /\ \/ /\ alert_raises(l)
              /\ Step(p, Raise(l, "KeyError or TypeError"))
           \/ /\ ~alert_raises(l)
              /\ Step(p, AfterAlertEmail(l))
           \/ /\ ~alert_raises(l)
              /\ Step(p, Raise(l, "SES error"))
        /\ UNCHANGED table

\* the result of a NORMAL invocation that changed the state
AlertBody(l) ==
    CASE l.last_state = NoState /\ l.current_state = "COLD" ->
             "Initial state set to COLD and freeze-type alert sent."
      [] l.last_state = NoState /\ l.current_state # "COLD" ->
             "Initial state set to WARM and warm-type alert sent."
      [] l.last_state # NoState /\ l.current_state = "COLD" ->
             "Transition to COLD; freeze alert sent."
      [] OTHER -> "Transition to WARM; warm-ok alert sent."

\* the warm-clear text sent whatever the state
AlertSmsOfAlwaysWarm(l) == WarmSms

AlertSmsOf(l) ==
    IF l.current_state = "COLD" THEN FreezeSms(l.min_temp, l.start_time, l.end_time)
    ELSE WarmSms

\* send_freeze_sms(...) or send_warm_ok_sms(...): skipped without a topic
AlertSms(p) ==
    LET l == inv[p]
    IN  /\ l.pc = "alert_sms"
        /\ \/ /\ ~topic_arn
              /\ Step(p, Return(l, 200, AlertBody(l)))
           \/ /\ topic_arn
              /\ Step(p, Return([l EXCEPT !.sent = Append(@, AlertSmsOf(l))],
                                200, AlertBody(l)))
           \/ /\ topic_arn
              /\ Step(p, Raise(l, "SNS error"))
        /\ UNCHANGED table

Next ==
    \/ \E p \in Procs, event \in Events, again \in BOOLEAN : Invoke(p, event, again)
    \/ \E p \in Procs : GetWeather(p)
    \/ \E p \in Procs : GetWeatherFails(p)
    \/ \E p \in Procs : GetLastState(p)
    \/ \E p \in Procs : GetLastStateFails(p)
    \/ \E p \in Procs : SendStatusEmail(p)
    \/ \E p \in Procs : SendTestSms(p)
    \/ \E p \in Procs : TestColdEmail(p)
    \/ \E p \in Procs : TestWarmEmail(p)
    \/ \E p \in Procs : SetLastState(p)
    \/ \E p \in Procs : SetLastStateFails(p)
    \/ \E p \in Procs : AlertEmail(p)
    \/ \E p \in Procs : AlertSms(p)

Spec == Init /\ [][Next]_vars

---------------------------------------------------------------------------
(* The evaluator and the classification on every forecast within the bounds *)

\* an hourly entry: without "temp", with a temp of None, or with a temperature
MkHour(i, c) ==
    CASE c = 1 -> [dt |-> 3600 * (i - 1)]
      [] c = 2 -> [dt |-> 3600 * (i - 1), temp |-> TempNone]
      [] c = 3 -> H(i - 1, 300)
      [] c = 4 -> H(i - 1, 320)
      [] OTHER -> H(i - 1, 400)

\* a daily entry: without "temp", with a min of None, or with a minimum
MkDay(i, c) ==
    CASE c = 1 -> [dt |-> 86400 * (i - 1)]
      [] c = 2 -> [dt |-> 86400 * (i - 1), temp |-> [min |-> TempNone, max |-> Temp(500)]]
      [] c = 3 -> D(i - 1, 340)
      [] c = 4 -> D(i - 1, 350)
      [] OTHER -> D(i - 1, 360)

EntryChoices == 1..5

HourlySeqs ==
    UNION {{[i \in 1..n |-> MkHour(i, c[i])] : c \in [1..n -> EntryChoices]} :
             n \in 0..MaxHourly}

DailySeqs ==
    UNION {{[i \in 1..n |-> MkDay(i, c[i])] : c \in [1..n -> EntryChoices]} :
             n \in 0..MaxDaily}

InitEval ==
    /\ table = NoState
    /\ topic_arn = FALSE
    /\ overlap = FALSE
    /\ inv = [p \in Procs |-> Idle]
    /\ run = NotClean
    /\ ev \in {[phase |-> "in", hourly |-> h, daily |-> d,
                hours_ahead |-> n, warm_clear_days |-> m] :
                  h \in HourlySeqs, d \in DailySeqs,
                  n \in 0..MaxHourly, m \in 1..MaxDaily}

\* lines 379-418 of lambda_handler on the drawn forecast: an empty hourly list
\* returns before any classification
Evaluate ==
    /\ ev.phase = "in"
    /\ LET cfg == [Config EXCEPT !.hours_ahead = ev.hours_ahead,
                                 !.warm_clear_days = ev.warm_clear_days]
           freeze_hours == find_freeze_hours(ev.hourly, cfg.hours_ahead, cfg.threshold_f)
           warm_ok == WarmOk(freeze_hours, ev.daily, cfg)
       IN  ev' = [phase |-> "out", hourly |-> ev.hourly, daily |-> ev.daily,
                  hours_ahead |-> ev.hours_ahead,
                  warm_clear_days |-> ev.warm_clear_days,
                  freeze_hours |-> freeze_hours,
                  warm_clear |-> find_warm_clear_days(ev.daily, cfg.warm_clear_days,
                                                      cfg.warm_threshold_f),
                  warm_ok |-> warm_ok,
                  current_state |-> IF ev.hourly = <<>> THEN NoState
                                    ELSE CurrentState(warm_ok)]
    /\ UNCHANGED <<table, topic_arn, overlap, inv, run>>

NextEval == Evaluate

SpecEval == InitEval /\ [][NextEval]_vars

---------------------------------------------------------------------------
(* What the claims speak of *)

DiagModes == {"TEST", "TEST_SMS_ONLY", "TEST_COLD", "TEST_WARM"}

Done(l) == l.pc = "done"
Succeeded(l) == l.pc = "done" /\ l.result.statusCode = 200
\* the forecast was not empty and was classified
Classified(l) == l.current_state # NoState
\* get_last_state answered
ReadState(l) == l.gets > 0 /\ l.result.body # "StateStoreError on read"
\* a freeze or warm-clear alert went out, by mail or by text message
AlertSent(l) == AlertsOf(l.sent, "email") # <<>> \/ AlertsOf(l.sent, "sms") # <<>>
\* the classification differs from the mode read, or none was stored
Differs(l) == l.current_state # l.last_state \/ l.last_state = NoState
KindOf(m) == IF m = "COLD" THEN "freeze" ELSE "warm"

\* a NORMAL invocation that ended, after classifying and reading the last state
NormalEnded(l) == Done(l) /\ l.mode = "NORMAL" /\ Classified(l) /\ ReadState(l)

---------------------------------------------------------------------------
(* C1 *)

\* C1 as stated: every NORMAL invocation with a non-empty hourly forecast that
\* ends, however it ends, has emitted an alert if and only if the classified mode
\* differs from the mode get_last_state read, or none was stored.
C1_AlertIffDiffers_AnyOutcome ==
    \A p \in Procs :
        NormalEnded(inv[p]) => (AlertSent(inv[p]) <=> Differs(inv[p]))

\* C1 amended: every NORMAL invocation with a non-empty hourly forecast that
\* returns success has emitted an alert if and only if the classified mode differs
\* from the mode get_last_state read, or none was stored; one that fails has
\* emitted an alert only if it differs.
C1_AlertIffDiffers ==
    \A p \in Procs :
        NormalEnded(inv[p]) =>
            /\ AlertSent(inv[p]) => Differs(inv[p])
            /\ Succeeded(inv[p]) => (AlertSent(inv[p]) <=> Differs(inv[p]))

\* a successful NORMAL invocation that found WARM stored, classified COLD and alerted
C1_Witness ==
    \E p \in Procs :
        /\ NormalEnded(inv[p]) /\ Succeeded(inv[p])
        /\ inv[p].last_state = "WARM" /\ inv[p].current_state = "COLD"
        /\ AlertSent(inv[p])

---------------------------------------------------------------------------
(* C2 *)

\* the row of the transition table for the modes l read and classified
FollowsTable(l) ==
    IF Differs(l)
    THEN /\ l.puts = <<l.current_state>>
         /\ table = l.current_state
         /\ AlertsOf(l.sent, "email") = <<KindOf(l.current_state)>>
         /\ AlertsOf(l.sent, "sms") =
                IF topic_arn THEN <<KindOf(l.current_state)>> ELSE <<>>
    ELSE /\ l.puts = <<>>
         /\ l.sent = <<>>
         /\ table = l.table0

\* C2 as stated: every NORMAL invocation that ends, however it ends, has followed
\* the transition table: a changed or first mode is persisted and announced by the
\* alert of its kind, an unchanged one persists and emits nothing.
C2_TransitionTable_AnyOutcome ==
    \A p \in Procs : NormalEnded(inv[p]) => FollowsTable(inv[p])

\* C2 amended: every NORMAL invocation that returns success has followed the
\* transition table.
C2_TransitionTable ==
    \A p \in Procs :
        (NormalEnded(inv[p]) /\ Succeeded(inv[p])) => FollowsTable(inv[p])

\* a successful NORMAL invocation that took the table from COLD to WARM
C2_Witness ==
    \E p \in Procs :
        /\ NormalEnded(inv[p]) /\ Succeeded(inv[p])
        /\ inv[p].last_state = "COLD" /\ inv[p].current_state = "WARM"
        /\ table = "WARM"
        /\ AlertsOf(inv[p].sent, "email") = <<"warm">>

---------------------------------------------------------------------------
(* C3 *)

\* the positions where a classification differs from the one before it
Changes(s) == Cardinality({i \in 2..Len(s) : s[i] # s[i - 1]})
Alternates(a) == \A i \in 2..Len(a) : a[i] # a[i - 1]
Quiet == \A p \in Procs : inv[p].pc \in {"idle", "done"}

\* C3: after a run of serialized successful NORMAL invocations from an empty table,
\* the alerts number one plus the changes of classification, alternate in kind, and
\* the table holds the last classification.
C3_RunOfClassifications ==
    (run.clean /\ run.classes # <<>> /\ Quiet) =>
        /\ Len(run.alerts) = 1 + Changes(run.classes)
        /\ Alternates(run.alerts)
        /\ run.alerts[1] = KindOf(run.classes[1])
        /\ topic_arn => run.sms = run.alerts
        /\ table = run.classes[Len(run.classes)]

\* the run COLD, COLD, WARM, WARM, COLD: three alerts, and the table ends COLD
C3_Witness ==
    /\ run.clean /\ Quiet
    /\ run.classes = <<"COLD", "COLD", "WARM", "WARM", "COLD">>
    /\ run.alerts = <<"freeze", "warm", "freeze">>
    /\ table = "COLD"

---------------------------------------------------------------------------
(* C4 *)

\* C4: a NORMAL invocation that classifies the mode already persisted sends
\* nothing and writes nothing, at any point of its run and however it ends.
C4_NoOpWhenUnchanged ==
    \A p \in Procs :
        (inv[p].mode = "NORMAL" /\ Classified(inv[p])
            /\ inv[p].table0 = inv[p].current_state) =>
                /\ inv[p].sent = <<>>
                /\ inv[p].puts = <<>>
                /\ table = inv[p].table0

\* a successful NORMAL invocation that found its classification already persisted
C4_Witness ==
    \E p \in Procs :
        /\ NormalEnded(inv[p]) /\ Succeeded(inv[p])
        /\ inv[p].last_state = inv[p].current_state
        /\ inv[p].table0 = "WARM"

---------------------------------------------------------------------------
(* C5 *)

\* C5: an invocation in a diagnostic mode never writes the table: it has put
\* nothing and the table is as it was when the invocation started.
C5_DiagnosticsNeverWrite ==
    \A p \in Procs :
        inv[p].mode \in DiagModes => (inv[p].puts = <<>> /\ table = inv[p].table0)

\* a successful TEST_COLD invocation that classified a mode other than the stored one
C5_Witness ==
    \E p \in Procs :
        /\ Succeeded(inv[p]) /\ inv[p].mode = "TEST_COLD"
        /\ Classified(inv[p]) /\ inv[p].current_state # table
        /\ inv[p].sent # <<>>

---------------------------------------------------------------------------
(* C6 *)

\* a temperature is missing from an hourly entry of the lookahead window
MissingHourlyTemp(hourly, hours_ahead) ==
    \E i \in 1..Len(Take(hourly, hours_ahead)) : Get(hourly[i], "temp") = TempNone
\* a minimum is missing from a daily entry of the warm-clear window
MissingDailyMin(daily, warm_clear_days) ==
    \E i \in 1..Len(Take(daily, warm_clear_days)) :
        Get(GetTempDict(daily[i]), "min") = TempNone

\* C6: a classified forecast with a temperature missing in the hourly window, a
\* minimum missing in the daily window, or no daily entries, is classified COLD.
C6_AmbiguityIsCold ==
    (ev.phase = "out" /\ ev.hourly # <<>>
        /\ (\/ MissingHourlyTemp(ev.hourly, ev.hours_ahead)
            \/ MissingDailyMin(ev.daily, ev.warm_clear_days)
            \/ ev.daily = <<>>))
    => ev.current_state = "COLD"

---------------------------------------------------------------------------
(* C7 *)

\* the alert mails of a failed invocation and of its retry l, together
RetryAlerts(l, chan) == AlertsOf(l.prev.sent, chan) \o AlertsOf(l.sent, chan)
\* a successful NORMAL retry of a failed NORMAL invocation
RetrySucceeded(l) ==
    Succeeded(l) /\ l.mode = "NORMAL" /\ l.prev.failed /\ Classified(l)
\* the classification of l differs from the mode stored before the failed invocation
ChangeWasDue(l) == l.prev.table0 = NoState \/ l.prev.table0 # l.current_state

\* C7 as stated: after a successful retry of a failed NORMAL invocation the table
\* holds the classified mode and the two invocations together have sent the one
\* alert a single successful invocation would have sent.
C7_RetryAnnouncesOnce_AsStated ==
    \A p \in Procs :
        RetrySucceeded(inv[p]) =>
            /\ table = inv[p].current_state
            /\ Len(RetryAlerts(inv[p], "email")) =
                   IF ChangeWasDue(inv[p]) THEN 1 ELSE 0

\* C7 amended: after a successful retry the table holds the classified mode and the
\* two invocations together have sent at most one alert mail and one alert text;
\* when the first invocation failed before its state write the retry sends the one
\* alert that was due, and when it failed after its state write the retry writes
\* and sends nothing, so an alert not sent by then is never sent.
C7_RetryAnnouncesAtMostOnce ==
    \A p \in Procs :
        RetrySucceeded(inv[p]) =>
            /\ table = inv[p].current_state
            /\ Len(RetryAlerts(inv[p], "email")) <= 1
            /\ Len(RetryAlerts(inv[p], "sms")) <= 1
            /\ inv[p].prev.puts = <<>> =>
                   Len(RetryAlerts(inv[p], "email")) =
                       IF ChangeWasDue(inv[p]) THEN 1 ELSE 0
            /\ inv[p].prev.puts # <<>> => (inv[p].sent = <<>> /\ inv[p].puts = <<>>)

\* a successful retry of an invocation whose state write failed: one alert in all
C7_Witness ==
    \E p \in Procs :
        /\ RetrySucceeded(inv[p])
        /\ inv[p].prev.fetched /\ inv[p].prev.current_state = inv[p].current_state
        /\ inv[p].prev.puts = <<>> /\ inv[p].prev.table0 = "COLD"
        /\ RetryAlerts(inv[p], "email") = <<"warm">>

---------------------------------------------------------------------------
(* C8 *)

\* an hourly entry is no dict, or lacks its temperature or its timestamp
Malformed(hourly) ==
    \E i \in 1..Len(hourly) :
        IF ~IsDict(hourly[i]) THEN TRUE
        ELSE "temp" \notin DOMAIN hourly[i] \/ "dt" \notin DOMAIN hourly[i]

\* C8: an invocation whose forecast fetch failed, whose forecast is malformed, or
\* whose state read failed ends in a failure result and has written no state.
C8_FatalErrorsWriteNothing ==
    \A p \in Procs :
        (Done(inv[p]) /\ inv[p].mode = "NORMAL"
            /\ (\/ ~inv[p].fetched
                \/ Malformed(inv[p].hourly)
                \/ inv[p].result.body = "StateStoreError on read"))
        => /\ inv[p].result.statusCode = 500
           /\ inv[p].puts = <<>>
           /\ table = inv[p].table0

---------------------------------------------------------------------------
(* C9 *)

\* C9: a NORMAL invocation whose state write raised returns status 500, has stored
\* and sent nothing, and the table keeps the mode it held.
C9_WriteFailureIsFailure ==
    \A p \in Procs :
        (Done(inv[p]) /\ inv[p].result.body = "StateStoreError on write") =>
            /\ inv[p].result.statusCode = 500
            /\ inv[p].puts = <<>>
            /\ inv[p].sent = <<>>
            /\ table = inv[p].table0
            /\ table = inv[p].last_state

\* a COLD to WARM transition whose state write raised: the table still holds COLD
C9_Witness ==
    \E p \in Procs :
        /\ Done(inv[p]) /\ inv[p].result.body = "StateStoreError on write"
        /\ inv[p].mode = "NORMAL"
        /\ inv[p].last_state = "COLD" /\ inv[p].current_state = "WARM"
        /\ table = "COLD"

---------------------------------------------------------------------------
(* C10 *)

\* C10: an invocation that got an empty hourly list and returned success has sent
\* no freeze or warm-clear alert and written no state, and in a diagnostic mode,
\* with the text channel configured, it has sent its status notification.
C10_EmptyHourlyTolerated ==
    \A p \in Procs :
        (Succeeded(inv[p]) /\ inv[p].fetched /\ inv[p].hourly = <<>>) =>
            /\ ~AlertSent(inv[p])
            /\ inv[p].puts = <<>>
            /\ table = inv[p].table0
            /\ (inv[p].mode \in DiagModes /\ topic_arn) => inv[p].sent # <<>>

---------------------------------------------------------------------------
(* C11 *)

\* the invocation runs a simulated mode
Simulated(l) == l.mode \in {"TEST_COLD", "TEST_WARM"}

\* the simulated notification of the mode: one freeze mail or one warm-clear mail
SimulatedSent(l) ==
    AlertsOf(l.sent, "email") = <<IF l.mode = "TEST_COLD" THEN "freeze" ELSE "warm">>

\* C11: every TEST_COLD or TEST_WARM invocation that ends has performed no get and
\* no put on the state store, and, unless the mail service itself failed, has
\* emitted its simulated notification whatever the forecast fetch answered and
\* whatever mode is stored.
C11_SimulatedIgnoresForecastAndState ==
    \A p \in Procs :
        (Done(inv[p]) /\ Simulated(inv[p])) =>
            /\ inv[p].gets = 0
            /\ inv[p].puts = <<>>
            /\ inv[p].result.body # "SES error" => SimulatedSent(inv[p])

\* C11, the state store alone: no simulated invocation reads the stored mode
C11_SimulatedNeverReads ==
    \A p \in Procs : Simulated(inv[p]) => inv[p].gets = 0

\* C11, the forecast alone: a simulated invocation that was answered a forecast
\* and whose mail service did not fail has emitted its simulated notification
C11_SimulatedIgnoresForecast ==
    \A p \in Procs :
        (Done(inv[p]) /\ Simulated(inv[p]) /\ inv[p].fetched
            /\ inv[p].result.body \notin {"SES error", "StateStoreError on read"}) =>
            SimulatedSent(inv[p])

---------------------------------------------------------------------------
(* C12 *)

\* C12: a NORMAL invocation has dispatched at most one alert mail and at most one
\* alert SMS, all of the kind of the mode it classified, and none unless it wrote
\* the state.
C12_AtMostOneAlertPerChannel ==
    \A p \in Procs :
        inv[p].mode = "NORMAL" =>
            /\ Len(AlertsOf(inv[p].sent, "email")) <= 1
            /\ Len(AlertsOf(inv[p].sent, "sms")) <= 1
            /\ \A i \in 1..Len(inv[p].sent) :
                   /\ inv[p].sent[i].kind \in {"freeze", "warm"}
                   /\ inv[p].sent[i].kind = inv[p].sent[1].kind
            /\ inv[p].puts = <<>> => inv[p].sent = <<>>

\* a NORMAL invocation that wrote once and sent a freeze mail and a freeze SMS
C12_Witness ==
    \E p \in Procs :
        /\ NormalEnded(inv[p]) /\ Succeeded(inv[p])
        /\ Len(inv[p].puts) = 1
        /\ AlertsOf(inv[p].sent, "email") = <<"freeze">>
        /\ AlertsOf(inv[p].sent, "sms") = <<"freeze">>

---------------------------------------------------------------------------
(* C13 *)

\* C13: no step of any invocation, in any mode and however it ends, takes the
\* table from a stored mode back to holding none.
C13_NeverBackToUninitialized == [][table # NoState => table' # NoState]_vars

\* a put failed on a table that already held a mode, and the mode is still there
C13_Witness ==
    \E p \in Procs :
        /\ Done(inv[p]) /\ inv[p].result.body = "StateStoreError on write"
        /\ inv[p].table0 = "COLD"
        /\ table = "COLD"

---------------------------------------------------------------------------
(* C14 *)

\* the decision table of the classification
classify(freeze_hours, warm_clear_ok) ==
    IF freeze_hours # <<>> THEN "COLD"
    ELSE IF warm_clear_ok THEN "WARM"
    ELSE "COLD"

\* the evaluator ran on a forecast with hourly data
Evaluated == ev.phase = "out" /\ ev.hourly # <<>>

\* C14: on every forecast with hourly data the mode the handler assigns is COLD
\* when the freeze-hour list is not empty, WARM when it is empty and the warm-clear
\* check answers true, and COLD otherwise.
C14_ClassificationIsClassify ==
    Evaluated => ev.current_state = classify(ev.freeze_hours, ev.warm_clear)

\* freeze hours found while the warm-clear check alone answers true: COLD
C14_Witness ==
    /\ Evaluated
    /\ ev.freeze_hours # <<>>
    /\ ev.warm_clear
    /\ ev.current_state = "COLD"

---------------------------------------------------------------------------
(* C15 *)

\* the hourly entry has a temperature at or below the freeze threshold
AtOrBelowFreezing(h) ==
    /\ "temp" \in DOMAIN h
    /\ h.temp # TempNone
    /\ h.temp[1] <= FREEZE_THRESHOLD_F

\* the positions of the lookahead window whose entry is at or below freezing
FreezingPositions(hourly, hours_ahead) ==
    {i \in 1..Len(hourly) : i <= hours_ahead /\ AtOrBelowFreezing(hourly[i])}

\* C15: for every hourly list and every hours_ahead >= 0, find_freeze_hours returns
\* the entries at positions within the first hours_ahead whose temperature is
\* present and at or below the threshold, each once, in the order of the list, and
\* nothing else.
C15_FreezeHoursAreTheWindowsColdHours ==
    ev.phase = "out" =>
        LET at == FreezingPositions(ev.hourly, ev.hours_ahead)
            r == ev.freeze_hours
        IN  /\ Len(r) = Cardinality(at)
            /\ \A i \in at : \E j \in 1..Len(r) : r[j] = ev.hourly[i]
            /\ \A j \in 1..Len(r) : \E i \in at : r[j] = ev.hourly[i]
            /\ \A j \in 2..Len(r) : r[j - 1].dt < r[j].dt

\* a freezing hour just beyond the window is left out, the one inside is returned
C15_Witness ==
    /\ ev.phase = "out"
    /\ ev.hours_ahead = 1
    /\ Len(ev.hourly) = 2
    /\ AtOrBelowFreezing(ev.hourly[2])
    /\ ev.freeze_hours = <<ev.hourly[1]>>
    /\ ev.hourly[1].temp = Temp(FREEZE_THRESHOLD_F)

---------------------------------------------------------------------------
(* C16 *)

\* the daily entry has a minimum at or above the warm threshold
WarmEnough(d) ==
    /\ "temp" \in DOMAIN d
    /\ "min" \in DOMAIN d.temp
    /\ d.temp.min # TempNone
    /\ d.temp.min[1] >= WARM_THRESHOLD_F

\* C16: find_warm_clear_days answers false on an empty daily list, and otherwise
\* true exactly when each of the first min(warm_clear_days, length) entries has a
\* minimum present and at or above the warm threshold.
C16_WarmClearIsEveryDayWarm ==
    ev.phase = "out" =>
        ev.warm_clear =
            IF ev.daily = <<>> THEN FALSE
            ELSE \A i \in 1..Min2(ev.warm_clear_days, Len(ev.daily)) :
                     WarmEnough(ev.daily[i])

\* a day at the threshold passes, and a cool day after the window does not count
C16_Witness ==
    /\ ev.phase = "out"
    /\ ev.warm_clear_days = 1
    /\ Len(ev.daily) = 2
    /\ WarmEnough(ev.daily[1])
    /\ ev.daily[1].temp.min = Temp(WARM_THRESHOLD_F)
    /\ ~WarmEnough(ev.daily[2])
    /\ ev.warm_clear

---------------------------------------------------------------------------
(* C17 *)

\* the invocation ended because the mail or the text-message service failed
DispatchFailed(l) == Done(l) /\ l.result.body \in {"SES error", "SNS error"}

\* C17: a NORMAL invocation that has dispatched an alert, or is about to, or has
\* ended on a failed dispatch, wrote the classified mode first, and the table
\* holds that mode.
C17_WriteBeforeNotify ==
    \A p \in Procs :
        (/\ inv[p].mode = "NORMAL"
         /\ \/ inv[p].sent # <<>>
            \/ inv[p].pc \in {"alert_email", "alert_sms"}
            \/ DispatchFailed(inv[p])) =>
            /\ inv[p].puts = <<inv[p].current_state>>
            /\ table = inv[p].current_state
            /\ \A i \in 1..Len(inv[p].sent) :
                   inv[p].sent[i].kind = KindOf(table)

\* the mail service failed on a change from WARM to COLD: COLD stays stored
C17_Witness ==
    \E p \in Procs :
        /\ inv[p].mode = "NORMAL"
        /\ Done(inv[p]) /\ inv[p].result.body = "SES error"
        /\ inv[p].table0 = "WARM"
        /\ inv[p].sent = <<>>
        /\ table = "COLD"

---------------------------------------------------------------------------
(* Overlapping NORMAL invocations: two calls of lambda_handler in flight at   *)
(* once, each get_item and put_item atomic, the steps between them interleaved *)

\* the forecasts answered while invocations overlap: freezing, warm and clear,
\* mild with a cool night
FeedOverlap ==
    { [hourly |-> <<H(0, 300)>>, daily |-> <<D(0, 360), D(1, 370)>>],
      [hourly |-> <<H(0, 400), H(1, 400)>>, daily |-> <<D(0, 360), D(1, 370)>>],
      [hourly |-> <<H(0, 400), H(1, 400)>>, daily |-> <<D(0, 360), D(1, 340)>>] }

InitOverlap ==
    /\ table = NoState
    /\ topic_arn \in BOOLEAN
    /\ overlap = TRUE
    /\ inv = [p \in Procs |-> Idle]
    /\ run = NotClean
    /\ ev = EvOff

\* the scheduler's event: lambda_handler({}, context), whatever else is in flight
InvokeNormal(p) == Invoke(p, [isdict |-> TRUE], FALSE)

\* weather = get_weather() answers one of the overlap forecasts
GetWeatherOverlap(p) ==
    /\ GetWeather(p)
    /\ [hourly |-> inv'[p].hourly, daily |-> inv'[p].daily] \in FeedOverlap

NextOverlap ==
    \/ \E p \in Procs : InvokeNormal(p)
    \/ \E p \in Procs : GetWeatherOverlap(p)
    \/ \E p \in Procs : GetWeatherFails(p)
    \/ \E p \in Procs : GetLastState(p)
    \/ \E p \in Procs : GetLastStateFails(p)
    \/ \E p \in Procs : SetLastState(p)
    \/ \E p \in Procs : SetLastStateFails(p)
    \/ \E p \in Procs : AlertEmail(p)
    \/ \E p \in Procs : AlertSms(p)

SpecOverlap == InitOverlap /\ [][NextOverlap]_vars

---------------------------------------------------------------------------
(* C18 *)

\* two successful NORMAL invocations that were each invoked on the same stored
\* mode and classified the same mode: both were in flight over one change
OverlappedOnOneChange(l, k) ==
    /\ NormalEnded(l) /\ Succeeded(l)
    /\ NormalEnded(k) /\ Succeeded(k)
    /\ l.current_state = k.current_state
    /\ l.table0 = k.table0
    /\ l.last_state = l.table0
    /\ k.last_state = k.table0

\* C18: when two NORMAL invocations overlap on the same change of classification,
\* with every get and put atomic and their read, compare and write interleaved,
\* together they announce the change by at most one alert mail and at most one
\* alert SMS, and once both have ended the table holds the classified mode.
C18_OverlapAnnouncesOnce ==
    \A p, q \in Procs :
        (p # q /\ OverlappedOnOneChange(inv[p], inv[q])) =>
            /\ Len(AlertsOf(inv[p].sent, "email"))
                 + Len(AlertsOf(inv[q].sent, "email")) <= 1
            /\ Len(AlertsOf(inv[p].sent, "sms"))
                 + Len(AlertsOf(inv[q].sent, "sms")) <= 1
            /\ table = inv[p].current_state

\* C18, the stored mode alone: after two overlapping invocations that classified
\* the same mode the table holds that mode
C18_OverlapStoresTheClassification ==
    \A p, q \in Procs :
        (p # q /\ OverlappedOnOneChange(inv[p], inv[q])) =>
            table = inv[p].current_state

---------------------------------------------------------------------------
(* C19 *)

\* the hours a NORMAL freeze alert is built from: the freeze-hour list, or the
\* first hourly entry alone when the list is empty
BuiltFrom(l) == IF l.freeze_hours = <<>> THEN <<l.hourly[1]>> ELSE l.freeze_hours

\* m is the lowest temperature of the hours
IsMinOf(m, hours) ==
    /\ \E i \in 1..Len(hours) : hours[i].temp = m
    /\ \A i \in 1..Len(hours) : m[1] <= hours[i].temp[1]

\* the freeze notification n carries the values of the hours
CarriesValuesOf(n, hours) ==
    /\ IsMinOf(n.min_temp, hours)
    /\ n.start_time = format_time(hours[1].dt)
    /\ n.end_time = format_time(hours[Len(hours)].dt)

\* the freeze notifications of an invocation
FreezeNotes(l) == {l.sent[i] : i \in {j \in 1..Len(l.sent) : l.sent[j].kind = "freeze"}}

\* C19: every freeze notification of a NORMAL invocation carries the minimum
\* temperature of the hours it is built from and the times of their first and last
\* entry, the hours being the freeze-hour list or, when the mode is COLD with no
\* freeze hours, the first hourly entry alone (start = end); the text message
\* carries the values of the mail; a TEST_COLD mail carries the minimum and the
\* span of its mock hours.
C19_FreezePayload ==
    \A p \in Procs :
        LET l == inv[p]
        IN  /\ l.mode = "NORMAL" =>
                \A n \in FreezeNotes(l) :
                    /\ CarriesValuesOf(n, BuiltFrom(l))
                    /\ l.freeze_hours = <<>> =>
                           /\ n.start_time = n.end_time
                           /\ n.min_temp = l.hourly[1].temp
                    /\ \A k \in FreezeNotes(l) :
                           /\ k.min_temp = n.min_temp
                           /\ k.start_time = n.start_time
                           /\ k.end_time = n.end_time
            /\ l.mode = "TEST_COLD" =>
                \A n \in FreezeNotes(l) :
                    /\ n.min_temp =
                           Temp(FREEZE_THRESHOLD_F - 20 - 5 * (HOURS_AHEAD - 1))
                    /\ n.end_time.local_minute - n.start_time.local_minute
                           = 60 * (HOURS_AHEAD - 1)

\* a freeze mail and a freeze SMS built from two freeze hours, the second the colder
C19_Witness ==
    \E p \in Procs :
        /\ NormalEnded(inv[p]) /\ Succeeded(inv[p])
        /\ Len(inv[p].freeze_hours) = 2
        /\ inv[p].freeze_hours[2].temp[1] < inv[p].freeze_hours[1].temp[1]
        /\ AlertsOf(inv[p].sent, "email") = <<"freeze">>
        /\ AlertsOf(inv[p].sent, "sms") = <<"freeze">>
        /\ inv[p].sent[2].min_temp = inv[p].freeze_hours[2].temp

\* the fallback at work: COLD with no freeze hours, a freeze mail of one hour
C19_FallbackReached ==
    \E p \in Procs :
        /\ NormalEnded(inv[p]) /\ Succeeded(inv[p])
        /\ inv[p].freeze_hours = <<>>
        /\ AlertsOf(inv[p].sent, "email") = <<"freeze">>

---------------------------------------------------------------------------
(* A steady forecast: from here on every forecast classifies to one mode, no   *)
(* collaborator fails, and the scheduler keeps invoking lambda_handler         *)

\* the table holds whatever earlier invocations left; ev names the steady mode
InitSteady ==
    /\ table \in {NoState} \cup Modes
    /\ topic_arn \in BOOLEAN
    /\ overlap = FALSE
    /\ inv = [p \in Procs |-> Idle]
    /\ run = NotClean
    /\ ev \in {[phase |-> "steady", mode |-> m] : m \in Modes}

\* get_weather() answers a forecast with hourly data that classifies to the mode
GetWeatherSteady(p) ==
    /\ GetWeather(p)
    /\ inv'[p].current_state = ev.mode

\* the alert mail, SES answering
AlertEmailSteady(p) ==
    /\ AlertEmail(p)
    /\ inv'[p].result.body # "SES error"

\* the alert SMS, SNS answering
AlertSmsSteady(p) ==
    /\ AlertSms(p)
    /\ inv'[p].result.body # "SNS error"

NextSteady ==
    \/ \E p \in Procs : InvokeNormal(p)
    \/ \E p \in Procs : GetWeatherSteady(p)
    \/ \E p \in Procs : GetLastState(p)
    \/ \E p \in Procs : SetLastState(p)
    \/ \E p \in Procs : AlertEmailSteady(p)
    \/ \E p \in Procs : AlertSmsSteady(p)

\* the scheduler keeps invoking and every invocation runs to its end
SpecSteady == InitSteady /\ [][NextSteady]_vars /\ WF_vars(NextSteady)

---------------------------------------------------------------------------
(* C20 *)

\* an invocation made once the table holds the steady mode sends and writes nothing
QuietOnceConverged ==
    \A p \in Procs :
        inv[p].table0 = ev.mode => (inv[p].sent = <<>> /\ inv[p].puts = <<>>)

\* C20: when every forecast classifies to one mode and NORMAL invocations keep
\* completing without collaborator failures, the table eventually holds that mode
\* for good, and every invocation made once it does emits no alert and performs no
\* write.
C20_Converges == <>[](table = ev.mode) /\ []QuietOnceConverged

\* an invocation found WARM stored under a steady COLD forecast and stored COLD
C20_Witness ==
    \E p \in Procs :
        /\ ev = [phase |-> "steady", mode |-> "COLD"]
        /\ Succeeded(inv[p])
        /\ inv[p].table0 = "WARM"
        /\ inv[p].puts = <<"COLD">>
        /\ table = "COLD"

\* an invocation made after convergence found the mode unchanged and did nothing
C20_QuietReached ==
    \E p \in Procs :
        /\ ev.phase = "steady"
        /\ Succeeded(inv[p])
        /\ inv[p].table0 = ev.mode
        /\ inv[p].gets = 1

---------------------------------------------------------------------------
(* C21 *)

\* C21: an invocation whose event names a mode other than NORMAL, a value the
\* handler does not recognise included, puts nothing, leaves the table as it found
\* it and, unless it is a simulation, sends no freeze or warm-clear alert.
C21_OnlyNormalWritesOrAlerts ==
    \A p \in Procs :
        inv[p].mode # "NORMAL" =>
            /\ inv[p].puts = <<>>
            /\ table = inv[p].table0
            /\ inv[p].mode \notin {"TEST_COLD", "TEST_WARM"} => ~AlertSent(inv[p])

\* C21, the modes the handler has a branch for: they put nothing and leave the
\* table as they found it
C21_RecognisedModesNeverWrite ==
    \A p \in Procs :
        inv[p].mode \in DiagModes =>
            (inv[p].puts = <<>> /\ table = inv[p].table0)

---------------------------------------------------------------------------
(* A table written by someone else: the item of key "main" holds a mode that   *)
(* set_last_state never stores                                                 *)

\* a mode string that is neither "COLD" nor "WARM"
ForeignMode == "HOT"

InitStored ==
    /\ table \in {NoState, ForeignMode} \cup Modes
    /\ topic_arn \in BOOLEAN
    /\ overlap = FALSE
    /\ inv = [p \in Procs |-> Idle]
    /\ run = NotClean
    /\ ev = EvOff

SpecStored == InitStored /\ [][Next]_vars

---------------------------------------------------------------------------
(* C22 *)

\* get_last_state answered a mode that is neither COLD nor WARM
ReadForeignMode(l) == ReadState(l) /\ l.last_state \notin Modes \cup {NoState}

\* C22: a NORMAL invocation that reads a stored mode other than COLD or WARM ends
\* in failure, sends nothing, puts nothing and leaves the table as it found it.
C22_ForeignModeRejected ==
    \A p \in Procs :
        (Done(inv[p]) /\ inv[p].mode = "NORMAL" /\ ReadForeignMode(inv[p])) =>
            /\ inv[p].result.statusCode = 500
            /\ inv[p].sent = <<>>
            /\ inv[p].puts = <<>>
            /\ table = inv[p].table0

====
